---- MODULE Spec2Model ----
(***************************************************************************)
(* Ticker mention extraction (src/ticker_extractor.py).                    *)
(*                                                                         *)
(* A text is a sequence of one-character strings.  The three compiled      *)
(* regular expressions are modelled at character level with Python's       *)
(* backtracking priorities (greedy quantifiers, ordered alternation) and   *)
(* finditer's leftmost, non-overlapping scan.                              *)
(***************************************************************************)
EXTENDS Integers, Sequences, FiniteSets, TLC

(***************************************************************************)
(* Characters.                                                             *)
(***************************************************************************)
LowerLetters ==
  <<"a","b","c","d","e","f","g","h","i","j","k","l","m",
    "n","o","p","q","r","s","t","u","v","w","x","y","z">>

UpperLetters ==
  <<"A","B","C","D","E","F","G","H","I","J","K","L","M",
    "N","O","P","Q","R","S","T","U","V","W","X","Y","Z">>

Digits == {"0","1","2","3","4","5","6","7","8","9"}

Whitespace == {" ", "\t", "\n", "\r", "\f"}

IsLower(c) == \E i \in 1..26 : LowerLetters[i] = c

IsUpper(c) == \E i \in 1..26 : UpperLetters[i] = c

\* [A-Za-z], and [A-Z] under re.IGNORECASE
IsLetter(c) == IsLower(c) \/ IsUpper(c)

\* \w
IsWordChar(c) == IsLetter(c) \/ c \in Digits \/ c = "_"

\* \s
IsSpace(c) == c \in Whitespace

\* str.upper() on one character
UpperChar(c) ==
  IF IsLower(c) THEN UpperLetters[CHOOSE i \in 1..26 : LowerLetters[i] = c]
  ELSE c

\* str.upper()
Upper(s) == [i \in 1..Len(s) |-> UpperChar(s[i])]

\* the slice s[a:b] of Python, with 1-based a and exclusive b
Slice(s, a, b) == SubSeq(s, a, b - 1)

RECURSIVE LStrip(_)
LStrip(s) == IF s # <<>> /\ IsSpace(Head(s)) THEN LStrip(Tail(s)) ELSE s

RECURSIVE RStrip(_)
RStrip(s) ==
  IF s # <<>> /\ IsSpace(s[Len(s)]) THEN RStrip(SubSeq(s, 1, Len(s) - 1)) ELSE s

\* str.strip()
Strip(s) == LStrip(RStrip(s))

(***************************************************************************)
(* Regular-expression primitives.  A position p in 1..Len(s)+1 is the      *)
(* index of the next character to consume.                                 *)
(***************************************************************************)
WordAt(s, p) == p \in 1..Len(s) /\ IsWordChar(s[p])

\* \b
Boundary(s, p) == WordAt(s, p - 1) # WordAt(s, p)

\* n letters start at p
LettersAt(s, p, n) ==
  p + n - 1 <= Len(s) /\ \A k \in 0..(n - 1) : IsLetter(s[p + k])

\* the literal w matches at p, ignoring case
LiteralAt(s, p, w) ==
  p + Len(w) - 1 <= Len(s)
    /\ \A k \in 1..Len(w) : UpperChar(s[p + k - 1]) = UpperChar(w[k])

\* length of the run of characters satisfying the class from p on
RECURSIVE SpaceRun(_, _)
SpaceRun(s, p) ==
  IF p <= Len(s) /\ IsSpace(s[p]) THEN 1 + SpaceRun(s, p + 1) ELSE 0

RECURSIVE WordRun(_, _)
WordRun(s, p) ==
  IF p <= Len(s) /\ IsWordChar(s[p]) THEN 1 + WordRun(s, p + 1) ELSE 0

\* a greedy quantifier tries the longest repetition first: the end
\* positions after p for counts hi, hi-1, ..., lo
Greedy(p, lo, hi) == [i \in 1..(IF hi >= lo THEN hi - lo + 1 ELSE 0) |-> p + hi - i + 1]

NoMatch == [start |-> 0, end |-> 0, gs |-> 0, ge |-> 0]

\* backtracking: rs holds <<i, r>> for the i-th candidate in priority order
\* and the result r of the rest of the pattern from it; the match is the
\* result of the first candidate from which the rest succeeds
FirstOf(rs) ==
  LET ok == {r \in rs : r[2] # NoMatch}
  IN  IF ok = {} THEN NoMatch
      ELSE (CHOOSE r \in ok : \A o \in ok : r[1] <= o[1])[2]

\* an alternative "word" or "words?": end positions in priority order
AltEnds(s, p, alt) ==
  IF ~LiteralAt(s, p, alt.w) THEN <<>>
  ELSE LET e == p + Len(alt.w)
       IN  IF alt.opt /\ e <= Len(s) /\ UpperChar(s[e]) = "S"
           THEN <<e + 1, e>> ELSE <<e>>

\* \s+ from p: end positions in priority order
SpacesEnds(s, p) == Greedy(p, 1, SpaceRun(s, p))

\* \w+ from p: end positions in priority order
WordEnds(s, p) == Greedy(p, 1, WordRun(s, p))

\* ordered alternation (a|b|...): end positions in priority order
RECURSIVE AlternationEnds(_, _, _)
AlternationEnds(s, p, alts) ==
  IF alts = <<>> THEN <<>>
  ELSE AltEnds(s, p, Head(alts)) \o AlternationEnds(s, p, Tail(alts))

(***************************************************************************)
(* The pattern set of _compile_patterns.                                   *)
(***************************************************************************)
Lit(w) == [w |-> w, opt |-> FALSE]

\* "calls?" and the like: the literal with an optional final s
OptS(w) == [w |-> w, opt |-> TRUE]

\* variant: the alternation without "holding", so that only "hold" is tried
action_words_no_holding ==
  << Lit(<<"b","u","y">>), Lit(<<"b","u","y","i","n","g">>),
     Lit(<<"b","o","u","g","h","t">>),
     Lit(<<"s","e","l","l">>), Lit(<<"s","e","l","l","i","n","g">>),
     Lit(<<"s","o","l","d">>),
     Lit(<<"l","o","n","g">>), Lit(<<"s","h","o","r","t">>),
     Lit(<<"s","h","o","r","t","i","n","g">>),
     OptS(<<"c","a","l","l">>), OptS(<<"p","u","t">>),
     Lit(<<"h","o","l","d">>),
     Lit(<<"y","o","l","o">>), Lit(<<"y","o","l","o","i","n","g">>),
     Lit(<<"y","o","l","o","e","d">>),
     Lit(<<"p","o","s","i","t","i","o","n">>),
     Lit(<<"p","o","s","i","t","i","o","n","e","d">>),
     Lit(<<"a","d","d","e","d">>), Lit(<<"a","d","d","i","n","g">>),
     Lit(<<"l","o","a","d","e","d">>), Lit(<<"l","o","a","d","i","n","g">>),
     Lit(<<"g","r","a","b","b","e","d">>), Lit(<<"g","r","a","b","b","i","n","g">>),
     Lit(<<"p","i","c","k","e","d">>), Lit(<<"p","i","c","k","i","n","g">>),
     Lit(<<"d","u","m","p","e","d">>), Lit(<<"d","u","m","p","i","n","g">>) >>

action_words ==
  << Lit(<<"b","u","y">>), Lit(<<"b","u","y","i","n","g">>),
     Lit(<<"b","o","u","g","h","t">>),
     Lit(<<"s","e","l","l">>), Lit(<<"s","e","l","l","i","n","g">>),
     Lit(<<"s","o","l","d">>),
     Lit(<<"l","o","n","g">>), Lit(<<"s","h","o","r","t">>),
     Lit(<<"s","h","o","r","t","i","n","g">>),
     OptS(<<"c","a","l","l">>), OptS(<<"p","u","t">>),
     Lit(<<"h","o","l","d","i","n","g">>), Lit(<<"h","o","l","d">>),
     Lit(<<"y","o","l","o">>), Lit(<<"y","o","l","o","i","n","g">>),
     Lit(<<"y","o","l","o","e","d">>),
     Lit(<<"p","o","s","i","t","i","o","n">>),
     Lit(<<"p","o","s","i","t","i","o","n","e","d">>),
     Lit(<<"a","d","d","e","d">>), Lit(<<"a","d","d","i","n","g">>),
     Lit(<<"l","o","a","d","e","d">>), Lit(<<"l","o","a","d","i","n","g">>),
     Lit(<<"g","r","a","b","b","e","d">>), Lit(<<"g","r","a","b","b","i","n","g">>),
     Lit(<<"p","i","c","k","e","d">>), Lit(<<"p","i","c","k","i","n","g">>),
     Lit(<<"d","u","m","p","e","d">>), Lit(<<"d","u","m","p","i","n","g">>) >>

\* variant: the dollar rule with {2,4}
dollar_pattern_short == [kind |-> "dollar", lo |-> 2, hi |-> 4]

\* r'\$([A-Za-z]{2,5})\b'
dollar_pattern == [kind |-> "dollar", lo |-> 2, hi |-> 5]

\* variant: up to four words between the action word and the ticker
action_before_pattern_gap4 ==
  [kind |-> "action_before", words |-> action_words, gap |-> 4,
   lo |-> 2, hi |-> 5]

\* rf'\b({action_pattern})\s+(?:\w+\s+){0,3}([A-Z]{2,5})\b'
action_before_pattern ==
  [kind |-> "action_before", words |-> action_words, gap |-> 3,
   lo |-> 2, hi |-> 5]

\* variant: the keyword alternation with "share" but not "shares?"
ticker_before_action_pattern_share ==
  [kind |-> "ticker_before_action", lo |-> 2, hi |-> 5,
   words |-> << OptS(<<"c","a","l","l">>), OptS(<<"p","u","t">>),
                Lit(<<"p","o","s","i","t","i","o","n">>),
                Lit(<<"s","h","a","r","e">>),
                Lit(<<"s","t","o","c","k">>) >>]

\* rf'\b([A-Z]{2,5})\s+(calls?|puts?|position|shares?|stock)\b'
ticker_before_action_pattern ==
  [kind |-> "ticker_before_action", lo |-> 2, hi |-> 5,
   words |-> << OptS(<<"c","a","l","l">>), OptS(<<"p","u","t">>),
                Lit(<<"p","o","s","i","t","i","o","n">>),
                OptS(<<"s","h","a","r","e">>),
                Lit(<<"s","t","o","c","k">>) >>]

\* the state _compile_patterns leaves on the engine
compile_patterns ==
  [dollar_pattern |-> dollar_pattern,
   action_before_pattern |-> action_before_pattern,
   ticker_before_action_pattern |-> ticker_before_action_pattern]

(***************************************************************************)
(* Matching one pattern at one start position.  A match records its span   *)
(* [start, end) and the span [gs, ge) of the captured ticker group.        *)
(***************************************************************************)
\* variant: the ticker group without the word boundary after it
TickerTail_unbounded(pat, s, p0, q) ==
  LET ends == Greedy(q, pat.lo, pat.hi)
  IN  FirstOf({<<i, IF LettersAt(s, q, ends[i] - q)
                    THEN [start |-> p0, end |-> ends[i], gs |-> q, ge |-> ends[i]]
                    ELSE NoMatch>> : i \in 1..Len(ends)})

\* ([A-Za-z]{lo,hi})\b from q, for a match that started at p0
TickerTail(pat, s, p0, q) ==
  LET ends == Greedy(q, pat.lo, pat.hi)
  IN  FirstOf({<<i, IF LettersAt(s, q, ends[i] - q) /\ Boundary(s, ends[i])
                    THEN [start |-> p0, end |-> ends[i], gs |-> q, ge |-> ends[i]]
                    ELSE NoMatch>> : i \in 1..Len(ends)})

DollarMatchAt(pat, s, p) ==
  IF p <= Len(s) /\ s[p] = "$" THEN TickerTail(pat, s, p, p + 1) ELSE NoMatch

\* (?:\w+\s+){0,n}([A-Z]{2,5})\b from q: one more repetition is tried
\* before the ticker group
RECURSIVE Gap(_, _, _, _, _)
RECURSIVE GapAfterWord(_, _, _, _, _)
Gap(pat, s, p0, q, n) ==
  LET wends == WordEnds(s, q)
      more ==
        IF n = 0 THEN NoMatch
        ELSE FirstOf({<<i, GapAfterWord(pat, s, p0, wends[i], n)>> :
                        i \in 1..Len(wends)})
  IN  IF more # NoMatch THEN more ELSE TickerTail(pat, s, p0, q)

\* \s+ from q closing one repetition of the gap, then the rest
GapAfterWord(pat, s, p0, q, n) ==
  LET sends == SpacesEnds(s, q)
  IN  FirstOf({<<i, Gap(pat, s, p0, sends[i], n - 1)>> : i \in 1..Len(sends)})

\* \s+ from q after the action word, then the gap and the ticker group
AfterActionWord(pat, s, p0, q) ==
  LET sends == SpacesEnds(s, q)
  IN  FirstOf({<<i, Gap(pat, s, p0, sends[i], pat.gap)>> : i \in 1..Len(sends)})

ActionBeforeMatchAt(pat, s, p) ==
  IF ~Boundary(s, p) THEN NoMatch
  ELSE LET ends == AlternationEnds(s, p, pat.words)
       IN  FirstOf({<<i, AfterActionWord(pat, s, p, ends[i])>> :
                      i \in 1..Len(ends)})

\* (calls?|puts?|position|shares?|stock)\b from q, after the ticker group
\* [p0, e)
KeywordTail(pat, s, p0, e, q) ==
  LET ends == AlternationEnds(s, q, pat.words)
  IN  FirstOf({<<i, IF Boundary(s, ends[i])
                    THEN [start |-> p0, end |-> ends[i], gs |-> p0, ge |-> e]
                    ELSE NoMatch>> : i \in 1..Len(ends)})

\* \s+ from e after the ticker group, then the keyword
AfterTicker(pat, s, p0, e) ==
  LET sends == SpacesEnds(s, e)
  IN  FirstOf({<<i, KeywordTail(pat, s, p0, e, sends[i])>> :
                 i \in 1..Len(sends)})

TickerBeforeActionMatchAt(pat, s, p) ==
  IF ~Boundary(s, p) THEN NoMatch
  ELSE LET ends == Greedy(p, pat.lo, pat.hi)
       IN  FirstOf({<<i, IF LettersAt(s, p, ends[i] - p)
                         THEN AfterTicker(pat, s, p, ends[i])
                         ELSE NoMatch>> : i \in 1..Len(ends)})

MatchAt(pat, s, p) ==
  CASE pat.kind = "dollar" -> DollarMatchAt(pat, s, p)
    [] pat.kind = "action_before" -> ActionBeforeMatchAt(pat, s, p)
    [] pat.kind = "ticker_before_action" -> TickerBeforeActionMatchAt(pat, s, p)

\* pattern.finditer(text): leftmost matches, each search resuming where the
\* previous match ended
RECURSIVE FindIterFrom(_, _, _)
FindIterFrom(pat, s, pos) ==
  IF pos > Len(s) THEN <<>>
  ELSE LET m == MatchAt(pat, s, pos)
       IN  IF m = NoMatch THEN FindIterFrom(pat, s, pos + 1)
           ELSE <<m>> \o FindIterFrom(pat, s, m.end)

finditer(pat, s) == FindIterFrom(pat, s, 1)

(***************************************************************************)
(* The ticker universe.                                                    *)
(***************************************************************************)
\* variant: the lines are trimmed but not upper-cased
read_tickers_no_upper(lines) ==
  {Strip(lines[i]) : i \in {j \in 1..Len(lines) : Strip(lines[j]) # <<>>}}

\* {line.strip().upper() for line in f if line.strip()}
read_tickers(lines) ==
  {Upper(Strip(lines[i])) : i \in {j \in 1..Len(lines) : Strip(lines[j]) # <<>>}}

\* variant: a source that cannot be loaded yields an empty universe
load_valid_tickers_default(src) ==
  IF src.kind = "file"
  THEN [raised |-> "", tickers |-> read_tickers(src.lines)]
  ELSE [raised |-> "", tickers |-> {}]

\* _load_valid_tickers: the set read, or the exception raised.  A source
\* that exists but cannot be opened makes open() raise an OSError.
load_valid_tickers(src) ==
  IF src.kind = "missing"
  THEN [raised |-> "FileNotFoundError", tickers |-> {}]
  ELSE IF src.kind = "unreadable"
  THEN [raised |-> "OSError", tickers |-> {}]
  ELSE [raised |-> "", tickers |-> read_tickers(src.lines)]

(***************************************************************************)
(* The mentions dictionary of one extract call: a sequence of              *)
(* TickerMention records in insertion order, at most one per key.          *)
(***************************************************************************)
TickerMention(ticker, confidence, context) ==
  [ticker |-> ticker, confidence |-> confidence, context |-> context]

\* ticker in mentions
Has(ms, k) == \E i \in 1..Len(ms) : ms[i].ticker = k

\* mentions[ticker]
Get(ms, k) == ms[CHOOSE i \in 1..Len(ms) : ms[i].ticker = k]

\* variant: a new key goes first
Put_front(ms, m) ==
  IF Has(ms, m.ticker)
  THEN [i \in 1..Len(ms) |-> IF ms[i].ticker = m.ticker THEN m ELSE ms[i]]
  ELSE <<m>> \o ms

\* mentions[ticker] = m: a new key goes last, an existing key keeps its place
Put(ms, m) ==
  IF Has(ms, m.ticker)
  THEN [i \in 1..Len(ms) |-> IF ms[i].ticker = m.ticker THEN m ELSE ms[i]]
  ELSE Append(ms, m)

\* variant: every valid dollar match writes its entry
high_insert_overwrite(ms, valid, ticker, context) ==
  IF ticker \in valid
  THEN Put(ms, TickerMention(ticker, "HIGH", context))
  ELSE ms

\* the body of the dollar loop for one match
high_insert(ms, valid, ticker, context) ==
  IF ticker \in valid
  THEN IF ~Has(ms, ticker) \/ Get(ms, ticker).confidence # "HIGH"
       THEN Put(ms, TickerMention(ticker, "HIGH", context))
       ELSE ms
  ELSE ms

\* variant: no universe test in the action-context loops
medium_insert_unfiltered(ms, valid, ticker, context) ==
  IF ~Has(ms, ticker)
  THEN Put(ms, TickerMention(ticker, "MEDIUM", context))
  ELSE ms

\* variant: mentions kept as a list, appended to on every valid match
medium_insert_append(ms, valid, ticker, context) ==
  IF ticker \in valid
  THEN Append(ms, TickerMention(ticker, "MEDIUM", context))
  ELSE ms

\* variant: no `ticker not in mentions` test, so a later MEDIUM overwrites
medium_insert_overwrite(ms, valid, ticker, context) ==
  IF ticker \in valid
  THEN Put(ms, TickerMention(ticker, "MEDIUM", context))
  ELSE ms

\* variant: the action-context loops grade their matches LOW
medium_insert_low(ms, valid, ticker, context) ==
  IF ticker \in valid /\ ~Has(ms, ticker)
  THEN Put(ms, TickerMention(ticker, "LOW", context))
  ELSE ms

\* the body of either action-context loop for one match
medium_insert(ms, valid, ticker, context) ==
  IF ticker \in valid /\ ~Has(ms, ticker)
  THEN Put(ms, TickerMention(ticker, "MEDIUM", context))
  ELSE ms

\* variant: the context upper-cased like the symbol
Group0_upper(s, m) == Upper(Slice(s, m.start, m.end))

\* match.group(n).upper() and match.group(0)
GroupUpper(s, m) == Upper(Slice(s, m.gs, m.ge))

Group0(s, m) == Slice(s, m.start, m.end)

RECURSIVE HighLoop(_, _, _, _)
HighLoop(ms, valid, s, matches) ==
  IF matches = <<>> THEN ms
  ELSE HighLoop(high_insert(ms, valid, GroupUpper(s, Head(matches)),
                            Group0(s, Head(matches))),
                valid, s, Tail(matches))

RECURSIVE MediumLoop(_, _, _, _)
MediumLoop(ms, valid, s, matches) ==
  IF matches = <<>> THEN ms
  ELSE MediumLoop(medium_insert(ms, valid, GroupUpper(s, Head(matches)),
                                Group0(s, Head(matches))),
                  valid, s, Tail(matches))

\* the three loops of extract over a text s
dollar_loop(ms, valid, pats, s) ==
  HighLoop(ms, valid, s, finditer(pats.dollar_pattern, s))

action_before_loop(ms, valid, pats, s) ==
  MediumLoop(ms, valid, s, finditer(pats.action_before_pattern, s))

ticker_before_action_loop(ms, valid, pats, s) ==
  MediumLoop(ms, valid, s, finditer(pats.ticker_before_action_pattern, s))

\* a text argument: None, or a str
NoneText == [none |-> TRUE, s |-> <<>>]

Str(s) == [none |-> FALSE, s |-> s]

\* variant: `if text == "": return []`
Falsy_empty_only(text) == ~text.none /\ text.s = <<>>

\* `not text`
Falsy(text) == text.none \/ text.s = <<>>

\* variant: the symbols in reverse order
tickers_of_reversed(ms) == [i \in 1..Len(ms) |-> ms[Len(ms) + 1 - i].ticker]

\* [m.ticker for m in mentions]
tickers_of(ms) == [i \in 1..Len(ms) |-> ms[i].ticker]

\* extract, run from entry to return with nothing in between
extract(valid, pats, text) ==
  IF Falsy(text) THEN <<>>
  ELSE ticker_before_action_loop(
         action_before_loop(
           dollar_loop(<<>>, valid, pats, text.s), valid, pats, text.s),
         valid, pats, text.s)

(***************************************************************************)
(* Inputs: universe sources and texts.                                     *)
(***************************************************************************)
\* longest text, in space-separated items
MaxItems == 3

\* concurrent callers of one engine
NumCallers == 2

Callers == 1..NumCallers

File(lines) == [kind |-> "file", lines |-> lines]

Sources ==
  { [kind |-> "missing", lines |-> <<>>],
    [kind |-> "unreadable", lines |-> <<>>],
    File(<<>>),
    File(<< <<"A","A","P","L","\n">>, <<"T","S","L","A","\n">> >>),
    File(<< <<"a","a","p","l","\n">>, <<"\n">>, <<" ","F"," ","\n">>,
            <<"B","R","K",".","B","\n">>, <<"G","O","O","G","L","E","\n">>,
            <<"G","O","O","G","L","\n">>, <<"B","B">>, <<"A","A","P","L","\n">>,
            <<" "," ","\n">>, <<"l","o","n","g","\n">>,
            <<"C","A","L","L","S","\n">>, <<"\t","B","b","\r","\n">> >>) }

Items ==
  { <<"b","o","u","g","h","t">>, <<"c","a","l","l","s">>,
    <<"t","o","d","a","y">>,
    <<"A","A","P","L">>, <<"T","S","L","A">>,
    <<"$","A","A","P","L">>, <<"$","a","a","p","l">>, <<"$","T","S","L","A">> }

\* the items of a text, joined by single spaces
RECURSIVE Join(_)
Join(items) ==
  IF Len(items) = 0 THEN <<>>
  ELSE IF Len(items) = 1 THEN items[1]
  ELSE items[1] \o <<" ">> \o Join(Tail(items))

ComposedTexts ==
  {Str(Join(f)) : f \in UNION {[1..n -> Items] : n \in 1..MaxItems}}

\* every word the action vocabulary is said to hold, base forms included
Vocabulary ==
  { <<"b","u","y">>, <<"b","u","y","i","n","g">>, <<"b","o","u","g","h","t">>,
    <<"s","e","l","l">>, <<"s","e","l","l","i","n","g">>, <<"s","o","l","d">>,
    <<"l","o","n","g">>, <<"s","h","o","r","t">>,
    <<"s","h","o","r","t","i","n","g">>,
    <<"c","a","l","l">>, <<"c","a","l","l","s">>,
    <<"p","u","t">>, <<"p","u","t","s">>,
    <<"h","o","l","d">>, <<"h","o","l","d","i","n","g">>,
    <<"y","o","l","o">>, <<"y","o","l","o","i","n","g">>,
    <<"y","o","l","o","e","d">>,
    <<"p","o","s","i","t","i","o","n">>,
    <<"p","o","s","i","t","i","o","n","e","d">>,
    <<"a","d","d">>, <<"a","d","d","i","n","g">>, <<"a","d","d","e","d">>,
    <<"l","o","a","d">>, <<"l","o","a","d","i","n","g">>,
    <<"l","o","a","d","e","d">>,
    <<"g","r","a","b">>, <<"g","r","a","b","b","i","n","g">>,
    <<"g","r","a","b","b","e","d">>,
    <<"p","i","c","k">>, <<"p","i","c","k","i","n","g">>,
    <<"p","i","c","k","e","d">>,
    <<"d","u","m","p">>, <<"d","u","m","p","i","n","g">>,
    <<"d","u","m","p","e","d">> }

BaseForms ==
  { <<"a","d","d">>, <<"l","o","a","d">>, <<"g","r","a","b">>,
    <<"p","i","c","k">>, <<"d","u","m","p">> }

\* "$" + t
DollarText(t) == <<"$">> \o t

\* w + " " + t
ActionText(w, t) == w \o <<" ">> \o t

\* the letter in lower case
LowerChar(c) ==
  IF IsUpper(c) THEN LowerLetters[CHOOSE i \in 1..26 : UpperLetters[i] = c]
  ELSE c

\* the spellings of t in upper- and lower-case letters
CaseVariants(t) ==
  {v \in [1..Len(t) -> {t[i] : i \in 1..Len(t)}
                         \cup {LowerChar(t[i]) : i \in 1..Len(t)}] :
     \A i \in 1..Len(t) : v[i] \in {t[i], LowerChar(t[i])}}

\* 2 to 5 letters
TickerShaped(sym) ==
  Len(sym) \in 2..5 /\ \A i \in 1..Len(sym) : IsLetter(sym[i])

\* "$" + v for every spelling v of a universe symbol
CaseTexts(valid) ==
  {Str(DollarText(v)) :
     v \in UNION {CaseVariants(t) : t \in {u \in valid : TickerShaped(u)}}}

\* the keywords of the ticker-before-action rule
Keywords ==
  { <<"c","a","l","l">>, <<"c","a","l","l","s">>,
    <<"p","u","t">>, <<"p","u","t","s">>,
    <<"p","o","s","i","t","i","o","n">>,
    <<"s","h","a","r","e">>, <<"s","h","a","r","e","s">>,
    <<"s","t","o","c","k">> }

\* t + " " + k
KeywordText(t, k) == t \o <<" ">> \o k

\* t + " " + k for every universe symbol t of 2-5 letters and keyword k
KeywordTexts(valid) ==
  {Str(KeywordText(t, k)) : t \in {u \in valid : TickerShaped(u)}, k \in Keywords}

\* most words between the action word and the symbol of a text
MaxFillers == 4

\* words that are no action words; one of them has the shape of a ticker
Fillers == { <<"x">>, <<"t","h","e">> }

\* "bought" + " " + the fillers + " " + t
GapText(fs, t) == Join(<< <<"b","o","u","g","h","t">> >> \o fs \o <<t>>)

GapTexts(valid) ==
  {Str(GapText(fs, t)) :
     fs \in UNION {[1..n -> Fillers] : n \in 0..MaxFillers},
     t \in {u \in valid : TickerShaped(u)}}

\* t followed by letters up to a run of six
Padded(t) == t \o [i \in 1..(6 - Len(t)) |-> "X"]

\* a digit and an underscore
WordSuffixes == { <<"1">>, <<"_">> }

\* "$" + t + a word character, "$" + t padded to six letters, "$" + one letter
UnboundedTexts(valid) ==
  {Str(DollarText(t \o x)) :
     t \in {u \in valid : TickerShaped(u)}, x \in WordSuffixes}
    \cup {Str(DollarText(Padded(t))) : t \in {u \in valid : TickerShaped(u)}}
    \cup {Str(DollarText(<<c>>)) : c \in {"F", "a"}}

\* the texts a caller may pass to an engine holding the universe valid
Texts(valid) ==
  ComposedTexts
    \cup {NoneText, Str(<<>>)}
    \cup {Str(DollarText(t)) : t \in valid}
    \cup {Str(ActionText(w, t)) : w \in Vocabulary, t \in valid}
    \cup CaseTexts(valid)
    \cup KeywordTexts(valid)
    \cup GapTexts(valid)
    \cup UnboundedTexts(valid)

\* the texts of concurrent callers
ConcTexts(valid) ==
  { NoneText,
    Str(<<"$","A","A","P","L">>),
    Str(Join(<< <<"b","o","u","g","h","t">>, <<"A","A","P","L">> >>)),
    Str(Join(<< <<"T","S","L","A">>, <<"c","a","l","l","s">>,
                <<"$","a","a","p","l">> >>)) }

(***************************************************************************)
(* State.                                                                  *)
(***************************************************************************)
VARIABLES
  source,     \* the universe source the engine is constructed from
  engine,     \* status, valid_tickers, patterns, and the exception raised
  pc,         \* per caller: where its call stands
  api,        \* per caller: the method called
  text,       \* per caller: the argument
  mentions,   \* per caller: the local dictionary of its extract call
  result,     \* per caller: what extract returned
  tickers     \* per caller: what extract_tickers_only returned

VARIABLES
  path,       \* the path given to getFileJsonStream
  f,          \* the bytes the file handle delivers, decompressed
  stream,     \* the generator returned: "zst", "gz", "jsonl", or "None"
  offset,     \* the number of bytes of f read so far
  buffer,     \* the incomplete line kept by _stream_zst
  yielded,    \* the records yielded so far
  exhausted   \* the generator has ended

streamVars == <<path, f, stream, offset, buffer, yielded, exhausted>>

VARIABLES
  all_tickers,  \* the raw symbols handed to filter_tickers
  remaining,    \* the symbols its loop has not visited yet
  filtered,     \* the set filter_tickers builds and returns
  final,        \* what add_special_tickers returned
  phase         \* "start", "filtering", "filtered", "done"

downloadVars == <<all_tickers, remaining, filtered, final, phase>>

vars ==
  <<source, engine, pc, api, text, mentions, result, tickers,
    path, f, stream, offset, buffer, yielded, exhausted,
    all_tickers, remaining, filtered, final, phase>>

NoEngine ==
  [status |-> "none", valid_tickers |-> {}, patterns |-> <<>>, raised |-> ""]

Init ==
  /\ source \in Sources
  /\ engine = NoEngine
  /\ pc = [t \in Callers |-> "idle"]
  /\ api = [t \in Callers |-> "extract"]
  /\ text = [t \in Callers |-> NoneText]
  /\ mentions = [t \in Callers |-> <<>>]
  /\ result = [t \in Callers |-> <<>>]
  /\ tickers = [t \in Callers |-> <<>>]
  /\ path = <<>>
  /\ f = <<>>
  /\ stream = "unopened"
  /\ offset = 0
  /\ buffer = <<>>
  /\ yielded = <<>>
  /\ exhausted = FALSE
  /\ all_tickers = {}
  /\ remaining = {}
  /\ filtered = {}
  /\ final = {}
  /\ phase = "start"

\* TickerExtractor(path): load the universe, then compile the patterns; an
\* exception of the load leaves no engine
Construct ==
  /\ engine.status = "none"
  /\ LET loaded == load_valid_tickers(source)
     IN  engine' =
           IF loaded.raised # ""
           THEN [status |-> "failed", valid_tickers |-> {},
                 patterns |-> <<>>, raised |-> loaded.raised]
           ELSE [status |-> "ready", valid_tickers |-> loaded.tickers,
                 patterns |-> compile_patterns, raised |-> ""]
  /\ UNCHANGED <<source, pc, api, text, mentions, result, tickers>>
  /\ UNCHANGED streamVars
  /\ UNCHANGED downloadVars

\* variant: one dictionary kept on the engine and used by every call
local_mentions_shared(ms, t) == ms[1]

\* the dictionary a call works on: the local `mentions` of that call
local_mentions(ms, t) == ms[t]

\* a caller enters extract, directly or through extract_tickers_only; a
\* falsy text returns [] at once, any other starts with mentions = {}
Call(t, T) ==
  /\ engine.status = "ready"
  /\ pc[t] = "idle"
  /\ \E a \in {"extract", "extract_tickers_only"}, x \in T :
       /\ api' = [api EXCEPT ![t] = a]
       /\ text' = [text EXCEPT ![t] = x]
       /\ pc' = [pc EXCEPT ![t] = IF Falsy(x) THEN "returned" ELSE "dollar"]
  /\ mentions' = [mentions EXCEPT ![t] = <<>>]
  /\ result' = [result EXCEPT ![t] = <<>>]
  /\ tickers' = [tickers EXCEPT ![t] = <<>>]
  /\ UNCHANGED <<source, engine>>
  /\ UNCHANGED streamVars
  /\ UNCHANGED downloadVars

\* the dollar loop; finditer raises TypeError on None
DollarPass(t) ==
  /\ pc[t] = "dollar"
  /\ IF text[t].none
     THEN /\ pc' = [pc EXCEPT ![t] = "raised"]
          /\ UNCHANGED mentions
     ELSE /\ pc' = [pc EXCEPT ![t] = "action"]
          /\ mentions' = [mentions EXCEPT ![t] =
               dollar_loop(local_mentions(mentions, t), engine.valid_tickers,
                           engine.patterns, text[t].s)]
  /\ UNCHANGED <<source, engine, api, text, result, tickers>>
  /\ UNCHANGED streamVars
  /\ UNCHANGED downloadVars

\* the action-before loop
ActionBeforePass(t) ==
  /\ pc[t] = "action"
  /\ pc' = [pc EXCEPT ![t] = "tba"]
  /\ mentions' = [mentions EXCEPT ![t] =
       action_before_loop(local_mentions(mentions, t), engine.valid_tickers,
                          engine.patterns, text[t].s)]
  /\ UNCHANGED <<source, engine, api, text, result, tickers>>
  /\ UNCHANGED streamVars
  /\ UNCHANGED downloadVars

\* the ticker-before-action loop and `return list(mentions.values())`
TickerBeforeActionPass(t) ==
  /\ pc[t] = "tba"
  /\ LET ms == ticker_before_action_loop(local_mentions(mentions, t),
                 engine.valid_tickers, engine.patterns, text[t].s)
     IN  /\ mentions' = [mentions EXCEPT ![t] = ms]
         /\ result' = [result EXCEPT ![t] = ms]
  /\ pc' = [pc EXCEPT ![t] = "returned"]
  /\ UNCHANGED <<source, engine, api, text, tickers>>
  /\ UNCHANGED streamVars
  /\ UNCHANGED downloadVars

\* extract_tickers_only projects what extract returned
Project(t) ==
  /\ pc[t] = "returned"
  /\ api[t] = "extract_tickers_only"
  /\ tickers' = [tickers EXCEPT ![t] = tickers_of(result[t])]
  /\ pc' = [pc EXCEPT ![t] = "projected"]
  /\ UNCHANGED <<source, engine, api, text, mentions, result>>
  /\ UNCHANGED streamVars
  /\ UNCHANGED downloadVars

\* the caller has its answer and may call again
Finish(t) ==
  /\ \/ pc[t] = "returned" /\ api[t] = "extract"
     \/ pc[t] = "projected"
  /\ pc' = [pc EXCEPT ![t] = "idle"]
  /\ api' = [api EXCEPT ![t] = "extract"]
  /\ text' = [text EXCEPT ![t] = NoneText]
  /\ mentions' = [mentions EXCEPT ![t] = <<>>]
  /\ result' = [result EXCEPT ![t] = <<>>]
  /\ tickers' = [tickers EXCEPT ![t] = <<>>]
  /\ UNCHANGED <<source, engine>>
  /\ UNCHANGED streamVars
  /\ UNCHANGED downloadVars

Steps(t) ==
  \/ DollarPass(t)
  \/ ActionBeforePass(t)
  \/ TickerBeforeActionPass(t)
  \/ Project(t)
  \/ Finish(t)

\* one caller, every text
Next ==
  \/ Construct
  \/ Call(1, Texts(engine.valid_tickers))
  \/ Steps(1)

Spec == Init /\ [][Next]_vars

\* several callers at once
NextConc ==
  \/ Construct
  \/ \E t \in Callers : Call(t, ConcTexts(engine.valid_tickers))
  \/ \E t \in Callers : Steps(t)

SpecConc == Init /\ [][NextConc]_vars

(***************************************************************************)
(* The record streams of fileStreams.py.  A file is the sequence of bytes  *)
(* its handle delivers after decompression; a record is the value          *)
(* orjson.loads returns.                                                   *)
(***************************************************************************)
\* most bytes of a file
MaxContent == 4

\* the bytes of a file: a digit, a sign, a blank, a newline, a form feed
Bytes == {"1", "-", " ", "\n", "\f"}

Contents == UNION {[1..n -> Bytes] : n \in 0..MaxContent}

Paths ==
  { <<"a",".","z","s","t">>, <<"a",".","g","z">>,
    <<"a",".","j","s","o","n","l">>, <<"a",".","j","s","o","n">>,
    <<"a",".","t","x","t">> }

\* str.endswith
EndsWith(s, suffix) ==
  Len(s) >= Len(suffix)
    /\ SubSeq(s, Len(s) - Len(suffix) + 1, Len(s)) = suffix

\* the bytes bytes.strip() removes
BytesWhitespace == {" ", "\t", "\n", "\r", "\f"}

RECURSIVE bytes_lstrip(_)
bytes_lstrip(b) ==
  IF b # <<>> /\ Head(b) \in BytesWhitespace THEN bytes_lstrip(Tail(b)) ELSE b

RECURSIVE bytes_rstrip(_)
bytes_rstrip(b) ==
  IF b # <<>> /\ b[Len(b)] \in BytesWhitespace
  THEN bytes_rstrip(SubSeq(b, 1, Len(b) - 1))
  ELSE b

\* bytes.strip()
bytes_strip(b) == bytes_lstrip(bytes_rstrip(b))

\* the whitespace a JSON document may have around its value
JsonWhitespace == {" ", "\t", "\n", "\r"}

RECURSIVE JsonTrimLeft(_)
JsonTrimLeft(b) ==
  IF b # <<>> /\ Head(b) \in JsonWhitespace THEN JsonTrimLeft(Tail(b)) ELSE b

RECURSIVE JsonTrimRight(_)
JsonTrimRight(b) ==
  IF b # <<>> /\ b[Len(b)] \in JsonWhitespace
  THEN JsonTrimRight(SubSeq(b, 1, Len(b) - 1))
  ELSE b

DigitValue(c) ==
  CHOOSE v \in 0..9 : <<"0","1","2","3","4","5","6","7","8","9">>[v + 1] = c

\* the value of a run of digits
RECURSIVE Decimal(_)
Decimal(d) ==
  IF d = <<>> THEN 0
  ELSE 10 * Decimal(SubSeq(d, 1, Len(d) - 1)) + DigitValue(d[Len(d)])

JSONDecodeError == [ok |-> FALSE, value |-> 0]

\* orjson.loads on the documents of the byte set: an integer, with
\* whitespace around it
loads(b) ==
  LET v == JsonTrimLeft(JsonTrimRight(b))
      neg == v # <<>> /\ Head(v) = "-"
      d == IF neg THEN Tail(v) ELSE v
  IN  IF /\ d # <<>>
         /\ \A i \in 1..Len(d) : d[i] \in Digits
         /\ (Len(d) > 1 => d[1] # "0")
      THEN [ok |-> TRUE, value |-> IF neg THEN 0 - Decimal(d) ELSE Decimal(d)]
      ELSE JSONDecodeError

\* try: yield orjson.loads(b) / except orjson.JSONDecodeError: the records
\* yielded
try_loads(b) == IF loads(b).ok THEN <<loads(b).value>> ELSE <<>>

\* the body of the loops over lines: strip, skip the empty line, parse
line_records(line) ==
  LET l == bytes_strip(line)
  IN  IF l # <<>> THEN try_loads(l) ELSE <<>>

RECURSIVE lines_records(_)
lines_records(lines) ==
  IF lines = <<>> THEN <<>>
  ELSE line_records(Head(lines)) \o lines_records(Tail(lines))

\* the final buffer of _stream_zst: tested stripped, parsed as it is
remaining_records(b) ==
  IF bytes_strip(b) # <<>> THEN try_loads(b) ELSE <<>>

\* the index of the first newline of b from p on, or 0
RECURSIVE FindNewline(_, _)
FindNewline(b, p) ==
  IF p > Len(b) THEN 0
  ELSE IF b[p] = "\n" THEN p
  ELSE FindNewline(b, p + 1)

\* b.split(b'\n')
RECURSIVE split(_)
split(b) ==
  LET i == FindNewline(b, 1)
  IN  IF i = 0 THEN <<b>>
      ELSE <<SubSeq(b, 1, i - 1)>> \o split(SubSeq(b, i + 1, Len(b)))

\* the end of the line a binary file iterator delivers from offset o: it
\* runs through the next newline, or to the end of the file
LineEnd(b, o) ==
  IF FindNewline(b, o + 1) = 0 THEN Len(b) ELSE FindNewline(b, o + 1)

\* reader.read(65536)
ReadSize == 65536

Min(a, b) == IF a < b THEN a ELSE b

\* the files handed to getFileJsonStream start unopened
InitStream == Init /\ source = File(<<>>)

getFileJsonStream(p, c) ==
  /\ stream = "unopened"
  /\ path' = p
  /\ f' = c
  /\ stream' =
       IF EndsWith(p, <<".","z","s","t">>) THEN "zst"
       ELSE IF EndsWith(p, <<".","g","z">>) THEN "gz"
       ELSE IF EndsWith(p, <<".","j","s","o","n","l">>)
                 \/ EndsWith(p, <<".","j","s","o","n">>) THEN "jsonl"
       ELSE "None"
  /\ UNCHANGED <<offset, buffer, yielded, exhausted>>
  /\ UNCHANGED <<source, engine, pc, api, text, mentions, result, tickers>>
  /\ UNCHANGED downloadVars

\* one iteration of `for line in f`, or its end
stream_lines(kind) ==
  /\ stream = kind
  /\ ~exhausted
  /\ IF offset < Len(f)
     THEN /\ offset' = LineEnd(f, offset)
          /\ yielded' =
               yielded \o line_records(SubSeq(f, offset + 1, LineEnd(f, offset)))
          /\ UNCHANGED exhausted
     ELSE /\ exhausted' = TRUE
          /\ UNCHANGED <<offset, yielded>>
  /\ UNCHANGED <<path, f, stream, buffer>>
  /\ UNCHANGED <<source, engine, pc, api, text, mentions, result, tickers>>
  /\ UNCHANGED downloadVars

stream_jsonl == stream_lines("jsonl")

stream_gz == stream_lines("gz")

\* one iteration of the read loop of _stream_zst with a chunk of n bytes
stream_zst_chunk ==
  /\ stream = "zst"
  /\ ~exhausted
  /\ \E n \in 1..Min(ReadSize, Len(f) - offset) :
       LET chunk == SubSeq(f, offset + 1, offset + n)
           lines == split(buffer \o chunk)
       IN  /\ offset' = offset + n
           /\ buffer' = lines[Len(lines)]
           /\ yielded' =
                yielded \o lines_records(SubSeq(lines, 1, Len(lines) - 1))
  /\ UNCHANGED <<path, f, stream, exhausted>>
  /\ UNCHANGED <<source, engine, pc, api, text, mentions, result, tickers>>
  /\ UNCHANGED downloadVars

\* the empty chunk ends the loop; the remaining buffer is processed
stream_zst_end ==
  /\ stream = "zst"
  /\ ~exhausted
  /\ offset = Len(f)
  /\ yielded' = yielded \o remaining_records(buffer)
  /\ exhausted' = TRUE
  /\ UNCHANGED <<path, f, stream, offset, buffer>>
  /\ UNCHANGED <<source, engine, pc, api, text, mentions, result, tickers>>
  /\ UNCHANGED downloadVars

NextStream ==
  \/ \E p \in Paths, c \in Contents : getFileJsonStream(p, c)
  \/ stream_jsonl
  \/ stream_gz
  \/ stream_zst_chunk
  \/ stream_zst_end

SpecStream == InitStream /\ [][NextStream]_vars

(***************************************************************************)
(* The universe builder of download_tickers.py: filter_tickers, then       *)
(* add_special_tickers on the set it returned.                             *)
(***************************************************************************)
\* the common words of filter_tickers, as the set literal holds them
common_words ==
  { <<"A">>, <<"I">>, <<"A","I">>, <<"A","M">>, <<"A","N">>, <<"A","R">>,
    <<"A","S">>, <<"A","T">>, <<"B","E">>, <<"B","Y">>, <<"D","D">>,
    <<"D","O">>, <<"E","U">>, <<"E","V">>, <<"G","O">>, <<"H","E">>,
    <<"I","F">>, <<"I","N">>, <<"I","S">>, <<"I","T">>, <<"M","D">>,
    <<"M","E">>, <<"M","L">>, <<"M","Y">>, <<"N","O">>, <<"O","F">>,
    <<"O","N">>, <<"O","R">>, <<"P","M">>, <<"S","O">>, <<"T","O">>,
    <<"U","I">>, <<"U","K">>, <<"U","P">>, <<"U","S">>, <<"U","X">>,
    <<"V","P">>, <<"V","R">>, <<"W","E">>, <<"A","L","L">>,
    <<"A","N","D">>, <<"A","N","Y">>, <<"A","P","I">>, <<"A","R","E">>,
    <<"A","T","H">>, <<"B","I","G">>, <<"B","U","Y">>, <<"C","A","N">>,
    <<"C","D","C">>, <<"C","E","O">>, <<"C","F","O">>, <<"C","I","O">>,
    <<"C","O","O">>, <<"C","P","I">>, <<"C","T","O">>, <<"E","O","D">>,
    <<"E","O","M">>, <<"E","O","Y">>, <<"E","V","P">>, <<"F","D","A">>,
    <<"F","E","D">>, <<"F","O","R">>, <<"F","Y","I">>, <<"G","D","P">>,
    <<"H","A","S">>, <<"H","I","M">>, <<"H","I","S">>, <<"H","O","W">>,
    <<"I","M","O">>, <<"I","O","T">>, <<"I","P","O">>, <<"I","T","S">>,
    <<"L","E","T">>, <<"L","O","W">>, <<"M","A","Y">>, <<"M","E","N">>,
    <<"M","T","D">>, <<"N","E","W">>, <<"N","O","T">>, <<"N","O","W">>,
    <<"O","L","D">>, <<"O","N","E">>, <<"O","U","R">>, <<"O","U","T">>,
    <<"O","W","N">>, <<"P","U","T">>, <<"P","h","D">>, <<"Q","T","D">>,
    <<"R","U","N">>, <<"S","A","Y">>, <<"S","D","K">>, <<"S","E","C">>,
    <<"S","E","E">>, <<"S","H","E">>, <<"S","V","P">>, <<"T","B","H">>,
    <<"T","H","E">>, <<"T","O","O">>, <<"T","W","O">>, <<"U","S","A">>,
    <<"W","A","S">>, <<"W","A","Y">>, <<"W","H","O">>, <<"W","H","Y">>,
    <<"W","I","N">>, <<"Y","O","U">>, <<"Y","T","D">>, <<"B","E","A","R">>,
    <<"B","E","S","T">>, <<"B","U","L","L">>, <<"C","A","L","L">>,
    <<"D","U","M","P">>, <<"E","D","I","T">>, <<"F","R","E","E">>,
    <<"G","A","I","N">>, <<"G","O","O","D">>, <<"H","O","L","D">>,
    <<"H","O","M","E">>, <<"J","U","S","T">>, <<"L","A","S","T">>,
    <<"L","I","F","E">>, <<"L","I","N","K">>, <<"L","I","V","E">>,
    <<"L","O","N","G">>, <<"L","O","S","S">>, <<"L","O","V","E">>,
    <<"M","A","N","Y">>, <<"M","O","O","N">>, <<"M","O","R","E">>,
    <<"M","O","S","T">>, <<"M","U","C","H">>, <<"N","E","X","T">>,
    <<"O","N","L","Y">>, <<"P","O","S","T">>, <<"P","U","M","P">>,
    <<"R","E","A","L">>, <<"S","E","L","L">>, <<"S","O","M","E">>,
    <<"S","U","C","H">>, <<"T","H","A","N">>, <<"T","H","A","T">>,
    <<"T","H","E","M">>, <<"T","H","E","N">>, <<"T","H","I","S">>,
    <<"T","R","U","E">>, <<"V","E","R","Y">>, <<"W","E","L","L">>,
    <<"W","H","A","T">>, <<"W","H","E","N">>, <<"W","I","L","L">>,
    <<"W","I","T","H">>, <<"W","O","R","K">>, <<"Y","O","L","O">>,
    <<"Y","O","U","R">>, <<"S","H","O","R","T">> }

popular_etfs ==
  { <<"D","I","A">>, <<"I","W","M">>, <<"Q","Q","Q">>, <<"V","O","O">>,
    <<"V","T","I">>, <<"A","R","K","K">>, <<"S","Q","Q","Q">>,
    <<"T","Q","Q","Q">> }

popular_stocks ==
  { <<"B","B">>, <<"A","M","C">>, <<"A","M","D">>, <<"G","M","E">>,
    <<"N","I","O">>, <<"N","O","K">>, <<"A","A","P","L">>,
    <<"A","M","Z","N">>, <<"G","O","O","G">>, <<"M","E","T","A">>,
    <<"M","S","F","T">>, <<"N","F","L","X">>, <<"N","V","D","A">>,
    <<"P","L","T","R">>, <<"T","S","L","A">>, <<"G","O","O","G","L">> }

\* str.isalpha() on the characters of the model
isalpha(s) == s # <<>> /\ \A i \in 1..Len(s) : IsLetter(s[i])

\* the body of the loop of filter_tickers for one ticker
filter_one(acc, ticker) ==
  IF Len(ticker) <= 1 THEN acc
  ELSE IF Upper(ticker) \in common_words THEN acc
  ELSE IF ~isalpha(ticker) THEN acc
  ELSE acc \cup {Upper(ticker)}

\* tickers.add("SPY"), then the two updates
with_special(ts) ==
  ((ts \cup {<<"S","P","Y">>}) \cup popular_etfs) \cup popular_stocks

\* most symbols of a raw download
MaxRaw == 3

\* raw symbols: one letter, common words in three spellings, a symbol
\* with a dot and one with a digit, lower case, an ETF, unlisted symbols
RawSymbols ==
  { <<"A">>, <<"I","T">>, <<"t","h","e">>, <<"P","H","D">>, <<"P","h","D">>,
    <<"B","R","K",".","B">>, <<"T","1">>, <<"a","a","p","l">>,
    <<"S","P","Y">>, <<"Z","Z">> }

RawSets == {r \in SUBSET RawSymbols : Cardinality(r) <= MaxRaw}

InitDownload == Init /\ source = File(<<>>)

\* filter_tickers(tickers) is entered: filtered = set()
filter_tickers(r) ==
  /\ phase = "start"
  /\ all_tickers' = r
  /\ remaining' = r
  /\ filtered' = {}
  /\ phase' = "filtering"
  /\ UNCHANGED final
  /\ UNCHANGED <<source, engine, pc, api, text, mentions, result, tickers>>
  /\ UNCHANGED streamVars

\* one iteration of `for ticker in tickers`, in the order the set gives
filter_loop ==
  /\ phase = "filtering"
  /\ \E ticker \in remaining :
       /\ filtered' = filter_one(filtered, ticker)
       /\ remaining' = remaining \ {ticker}
  /\ UNCHANGED <<all_tickers, final, phase>>
  /\ UNCHANGED <<source, engine, pc, api, text, mentions, result, tickers>>
  /\ UNCHANGED streamVars

\* the loop is over: return filtered
filter_return ==
  /\ phase = "filtering"
  /\ remaining = {}
  /\ phase' = "filtered"
  /\ UNCHANGED <<all_tickers, remaining, filtered, final>>
  /\ UNCHANGED <<source, engine, pc, api, text, mentions, result, tickers>>
  /\ UNCHANGED streamVars

\* add_special_tickers(filtered) updates the set in place and returns it
add_special_tickers ==
  /\ phase = "filtered"
  /\ filtered' = with_special(filtered)
  /\ final' = with_special(filtered)
  /\ phase' = "done"
  /\ UNCHANGED <<all_tickers, remaining>>
  /\ UNCHANGED <<source, engine, pc, api, text, mentions, result, tickers>>
  /\ UNCHANGED streamVars

NextDownload ==
  \/ \E r \in RawSets : filter_tickers(r)
  \/ filter_loop
  \/ filter_return
  \/ add_special_tickers

SpecDownload == InitDownload /\ [][NextDownload]_vars

(***************************************************************************)
(* Properties.                                                             *)
(***************************************************************************)
\* the call of caller t has returned from extract
Returned(t) == pc[t] \in {"returned", "projected"}

\* the matches of a rule in the text of caller t, and their candidates
MatchesOf(t, pat) == finditer(pat, text[t].s)

Candidates(t, pat) ==
  {GroupUpper(text[t].s, MatchesOf(t, pat)[i]) :
     i \in 1..Len(MatchesOf(t, pat))}

\* the rule matches somewhere in s with the candidate sym
RuleMatches(pat, s, sym) ==
  \E p \in 1..Len(s) :
    MatchAt(pat, s, p) # NoMatch /\ GroupUpper(s, MatchAt(pat, s, p)) = sym

\* C1: every Mention returned by extract has a symbol of the universe,
\* and so has every entry of the dictionary while the call runs; a
\* candidate outside the universe never appears.
SymbolsInUniverse ==
  \A t \in Callers :
    /\ \A i \in 1..Len(mentions[t]) :
         mentions[t][i].ticker \in engine.valid_tickers
    /\ Returned(t) =>
         \A i \in 1..Len(result[t]) :
           result[t][i].ticker \in engine.valid_tickers

\* a returned call in which each of the three rules captured a candidate
\* outside a non-empty universe
SymbolsInUniverseWitness ==
  /\ Returned(1) /\ ~text[1].none
  /\ engine.valid_tickers # {}
  /\ Candidates(1, dollar_pattern) \ engine.valid_tickers # {}
  /\ Candidates(1, action_before_pattern) \ engine.valid_tickers # {}
  /\ Candidates(1, ticker_before_action_pattern) \ engine.valid_tickers # {}

\* C2: the list returned by one call holds at most one Mention per symbol.
OneMentionPerSymbol ==
  \A t \in Callers :
    Returned(t) =>
      \A i, j \in 1..Len(result[t]) :
        result[t][i].ticker = result[t][j].ticker => i = j

\* a returned call whose text matches one universe symbol twice by the
\* dollar rule and again by an action-context rule
OneMentionPerSymbolWitness ==
  /\ Returned(1) /\ ~text[1].none
  /\ \E sym \in engine.valid_tickers :
       /\ Cardinality({i \in 1..Len(MatchesOf(1, dollar_pattern)) :
            GroupUpper(text[1].s, MatchesOf(1, dollar_pattern)[i]) = sym}) >= 2
       /\ \/ sym \in Candidates(1, action_before_pattern)
          \/ sym \in Candidates(1, ticker_before_action_pattern)
       /\ \E i \in 1..Len(result[1]) : result[1][i].ticker = sym

\* C3: a universe symbol with a dollar match is returned HIGH, wherever its
\* action-context matches lie; a MEDIUM Mention has no dollar match.
DollarWins ==
  \A t \in Callers :
    (Returned(t) /\ ~text[t].none) =>
      /\ \A sym \in engine.valid_tickers :
           RuleMatches(dollar_pattern, text[t].s, sym) =>
             \E i \in 1..Len(result[t]) :
               /\ result[t][i].ticker = sym
               /\ result[t][i].confidence = "HIGH"
      /\ \A i \in 1..Len(result[t]) :
           result[t][i].confidence = "MEDIUM" =>
             ~RuleMatches(dollar_pattern, text[t].s, result[t][i].ticker)

\* a returned call in which an action-before match of a universe symbol
\* starts before the first dollar match of the same symbol
DollarWinsWitness ==
  /\ Returned(1) /\ ~text[1].none
  /\ \E sym \in engine.valid_tickers :
       \E i \in 1..Len(MatchesOf(1, action_before_pattern)) :
         /\ GroupUpper(text[1].s, MatchesOf(1, action_before_pattern)[i]) = sym
         /\ RuleMatches(dollar_pattern, text[1].s, sym)
         /\ \A j \in 1..Len(MatchesOf(1, dollar_pattern)) :
              GroupUpper(text[1].s, MatchesOf(1, dollar_pattern)[j]) = sym =>
                MatchesOf(1, action_before_pattern)[i].start
                  < MatchesOf(1, dollar_pattern)[j].start

\* C4 as stated: for every symbol t of the loaded universe, whatever its
\* length or alphabet, extract("$" + t) is one HIGH Mention of t with
\* context "$" + t.
DollarOfAnySymbol ==
  \A t \in Callers :
    Returned(t) =>
      \A sym \in engine.valid_tickers :
        text[t] = Str(DollarText(sym)) =>
          result[t] = <<TickerMention(Upper(sym), "HIGH", DollarText(sym))>>

\* C4: for every universe symbol t of 2 to 5 letters, extract("$" + t) is
\* one HIGH Mention of t with context "$" + t.
DollarOfShapedSymbol ==
  \A t \in Callers :
    Returned(t) =>
      \A sym \in engine.valid_tickers :
        (TickerShaped(sym) /\ text[t] = Str(DollarText(sym))) =>
          result[t] = <<TickerMention(Upper(sym), "HIGH", DollarText(sym))>>

\* a returned extract("$" + t) for a five-letter universe symbol t
DollarOfShapedSymbolWitness ==
  /\ Returned(1)
  /\ \E sym \in engine.valid_tickers :
       Len(sym) = 5 /\ TickerShaped(sym) /\ text[1] = Str(DollarText(sym))
  /\ Len(result[1]) = 1

\* in s an action word of the engine's vocabulary, standing as a word, is
\* followed by whitespace and then by sym as a whole word
ActionThenSymbol(s, sym) ==
  \E p \in 1..Len(s) :
    /\ Boundary(s, p)
    /\ \E k \in 1..Len(AlternationEnds(s, p, action_words)) :
         LET e == AlternationEnds(s, p, action_words)[k]
             q == e + SpaceRun(s, e)
         IN  /\ SpaceRun(s, e) >= 1
             /\ q + Len(sym) - 1 <= Len(s)
             /\ Upper(Slice(s, q, q + Len(sym))) = sym
             /\ Boundary(s, q + Len(sym))

\* C5: a text in which an action word is followed by whitespace and a 2-5
\* letter universe symbol as a whole word yields a Mention for that symbol,
\* whatever precedes the action word or follows the symbol; the Mention is
\* MEDIUM when the text has no dollar occurrence of the symbol.
ActionWordThenSymbolMentioned ==
  \A t \in Callers :
    (Returned(t) /\ ~text[t].none) =>
      \A sym \in engine.valid_tickers :
        (TickerShaped(sym) /\ ActionThenSymbol(text[t].s, sym)) =>
          \E i \in 1..Len(result[t]) :
            /\ result[t][i].ticker = sym
            /\ ~RuleMatches(dollar_pattern, text[t].s, sym) =>
                 result[t][i].confidence = "MEDIUM"

\* extract(w + " " + sym) holds a MEDIUM Mention of sym, for the words W
VocabularyRecognised(W) ==
  \A t \in Callers :
    Returned(t) =>
      \A w \in W, sym \in engine.valid_tickers :
        (TickerShaped(sym) /\ text[t] = Str(ActionText(w, sym))) =>
          \E i \in 1..Len(result[t]) :
            /\ result[t][i].ticker = sym
            /\ result[t][i].confidence = "MEDIUM"

\* C6 as stated: every word of the specified vocabulary, the base forms
\* add, load, grab, pick and dump included, followed by a space and a 2-5
\* letter universe symbol, yields a MEDIUM Mention of the symbol.
SpecifiedVocabularyRecognised == VocabularyRecognised(Vocabulary)

\* C6: every word of the specified vocabulary other than the base forms
\* add, load, grab, pick and dump, followed by a space and a 2-5 letter
\* universe symbol, yields a MEDIUM Mention of the symbol.
CompiledVocabularyRecognised == VocabularyRecognised(Vocabulary \ BaseForms)

\* a returned extract("holding" + " " + sym) for a universe symbol
CompiledVocabularyRecognisedWitness ==
  /\ Returned(1)
  /\ \E sym \in engine.valid_tickers :
       /\ TickerShaped(sym)
       /\ text[1] = Str(ActionText(<<"h","o","l","d","i","n","g">>, sym))
  /\ Len(result[1]) = 1

\* C7: extract of None or of the empty string returns [] and does not
\* raise, for every universe.
FalsyTextReturnsEmpty ==
  \A t \in Callers :
    (pc[t] # "idle" /\ (text[t].none \/ text[t].s = <<>>)) =>
      /\ pc[t] \in {"returned", "projected"}
      /\ result[t] = <<>>

\* extract(None) has returned on an engine with a non-empty universe
FalsyTextReturnsEmptyWitness ==
  /\ pc[1] = "returned" /\ api[1] = "extract"
  /\ text[1].none
  /\ engine.valid_tickers # {}

\* construction has been attempted from a source that is missing or
\* cannot be read
BadSourceTried ==
  source.kind \in {"missing", "unreadable"} /\ engine.status # "none"

\* no engine exists on which extract could be called
NoUsableEngine ==
  /\ engine.status = "failed"
  /\ engine.valid_tickers = {}
  /\ engine.patterns = <<>>
  /\ \A t \in Callers : pc[t] = "idle"

TickersOnlyIsProjection ==
  \A t \in Callers :
    pc[t] = "projected" =>
      LET E == extract(engine.valid_tickers, engine.patterns, text[t])
      IN  /\ Len(tickers[t]) = Len(E)
          /\ \A i \in 1..Len(E) : tickers[t][i] = E[i].ticker

\* extract_tickers_only has returned two symbols or more
TickersOnlyIsProjectionWitness ==
  pc[1] = "projected" /\ Len(tickers[1]) >= 2

\* C10: once constructed the engine never changes, and every call returns
\* what extract computes alone on its text, whatever the other callers do.
EngineStateless ==
  /\ [][engine.status = "ready" => engine' = engine]_vars
  /\ [](\A t \in Callers :
          Returned(t) =>
            result[t] = extract(engine.valid_tickers, engine.patterns, text[t]))

\* two calls on different texts are under way at once, each with entries
\* in its dictionary
EngineStatelessWitness ==
  /\ pc[1] = "action" /\ pc[2] = "tba"
  /\ text[1] # text[2]
  /\ mentions[1] # <<>> /\ mentions[2] # <<>>
  /\ mentions[1] # mentions[2]

\* the characters of a line between its first and its last non-blank one
Trimmed(l) ==
  LET ns == {i \in 1..Len(l) : l[i] \notin Whitespace}
  IN  IF ns = {} THEN <<>>
      ELSE SubSeq(l, CHOOSE i \in ns : \A j \in ns : i <= j,
                     CHOOSE i \in ns : \A j \in ns : j <= i)

\* the two lines are the same but for case and surrounding whitespace
SameButCaseAndBlanks(l1, l2) ==
  /\ Len(Trimmed(l1)) = Len(Trimmed(l2))
  /\ \A i \in 1..Len(Trimmed(l1)) :
       UpperChar(Trimmed(l1)[i]) = UpperChar(Trimmed(l2)[i])

\* C11: the loaded universe is exactly the set of the trimmed, upper-cased
\* non-blank lines of the source: every member comes from a line, every
\* non-blank line has its member, no member is blank, untrimmed or holds a
\* lower-case letter, and lines equal but for case, surrounding whitespace
\* or repetition share one member.
UniverseIsNormalisedLines ==
  engine.status = "ready" =>
    LET lines == source.lines
        nonblank == {i \in 1..Len(lines) : Trimmed(lines[i]) # <<>>}
    IN  /\ \A sym \in engine.valid_tickers :
             /\ sym # <<>>
             /\ sym[1] \notin Whitespace /\ sym[Len(sym)] \notin Whitespace
             /\ \A k \in 1..Len(sym) : ~IsLower(sym[k])
             /\ \E i \in nonblank :
                  /\ Len(Trimmed(lines[i])) = Len(sym)
                  /\ \A k \in 1..Len(sym) :
                       UpperChar(Trimmed(lines[i])[k]) = sym[k]
        /\ \A i \in nonblank :
             \E sym \in engine.valid_tickers :
               /\ Len(Trimmed(lines[i])) = Len(sym)
               /\ \A k \in 1..Len(sym) :
                    UpperChar(Trimmed(lines[i])[k]) = sym[k]
        /\ \A i, j \in nonblank :
             SameButCaseAndBlanks(lines[i], lines[j]) =>
               Cardinality({sym \in engine.valid_tickers :
                  \/ SameButCaseAndBlanks(sym, lines[i])
                  \/ SameButCaseAndBlanks(sym, lines[j])}) = 1

\* a universe loaded from a source with a blank line and with two distinct
\* lines that differ only in case and surrounding whitespace
UniverseIsNormalisedLinesWitness ==
  /\ engine.status = "ready"
  /\ \E i \in 1..Len(source.lines) : Trimmed(source.lines[i]) = <<>>
  /\ \E i, j \in 1..Len(source.lines) :
       /\ source.lines[i] # source.lines[j]
       /\ Trimmed(source.lines[i]) # Trimmed(source.lines[j])
       /\ Trimmed(source.lines[i]) # <<>>
       /\ SameButCaseAndBlanks(source.lines[i], source.lines[j])

\* the text is "$" + v for an upper/lower-case spelling v of sym
IsDollarSpelling(x, sym) ==
  /\ ~x.none
  /\ Len(x.s) = Len(sym) + 1
  /\ x.s[1] = "$"
  /\ \A i \in 1..Len(sym) : x.s[i + 1] \in {sym[i], LowerChar(sym[i])}

\* C12: for every 2-5 letter universe symbol and every upper/lower-case
\* spelling v of it, extract("$" + v) is one HIGH Mention whose symbol is
\* the upper-case symbol and whose context is "$" + v as written.
DollarIgnoresCase ==
  \A t \in Callers :
    Returned(t) =>
      \A sym \in engine.valid_tickers :
        (TickerShaped(sym) /\ IsDollarSpelling(text[t], sym)) =>
          result[t] = <<TickerMention(sym, "HIGH", text[t].s)>>

\* a returned extract("$" + v) for a mixed-case spelling v of a symbol
DollarIgnoresCaseWitness ==
  /\ Returned(1)
  /\ \E sym \in engine.valid_tickers :
       /\ TickerShaped(sym)
       /\ IsDollarSpelling(text[1], sym)
       /\ \E i, j \in 1..Len(text[1].s) :
            IsLower(text[1].s[i]) /\ IsUpper(text[1].s[j])
  /\ Len(result[1]) = 1

\* C13: no Mention is ever graded LOW: every entry of the dictionary and of
\* the result is HIGH or MEDIUM.
NeverLow ==
  \A t \in Callers :
    /\ \A i \in 1..Len(mentions[t]) :
         mentions[t][i].confidence \in {"HIGH", "MEDIUM"}
    /\ \A i \in 1..Len(result[t]) :
         result[t][i].confidence \in {"HIGH", "MEDIUM"}

\* a returned call with a HIGH Mention and a MEDIUM Mention that only the
\* ticker-before-action rule matched
NeverLowWitness ==
  /\ Returned(1) /\ ~text[1].none
  /\ \E i, k \in 1..Len(result[1]) :
       /\ result[1][i].confidence = "HIGH"
       /\ result[1][k].ticker \in Candidates(1, ticker_before_action_pattern)
       /\ result[1][k].ticker \notin Candidates(1, action_before_pattern)
       /\ result[1][k].confidence = "MEDIUM"

\* C14: for every 2-5 letter universe symbol t and every keyword k of
\* call, calls, put, puts, position, share, shares, stock,
\* extract(t + " " + k) holds a MEDIUM Mention of t with context t + " " + k.
TickerBeforeKeyword ==
  \A t \in Callers :
    Returned(t) =>
      \A sym \in engine.valid_tickers, k \in Keywords :
        (TickerShaped(sym) /\ text[t] = Str(KeywordText(sym, k))) =>
          \E i \in 1..Len(result[t]) :
            result[t][i] = TickerMention(sym, "MEDIUM", KeywordText(sym, k))

\* a returned extract(t + " shares") with one Mention
TickerBeforeKeywordWitness ==
  /\ Returned(1)
  /\ \E sym \in engine.valid_tickers :
       /\ TickerShaped(sym)
       /\ text[1] = Str(KeywordText(sym, <<"s","h","a","r","e","s">>))
  /\ Len(result[1]) = 1

\* the first match of the rule in s, in scan order, whose candidate is sym
FirstMatchFor(pat, s, sym) ==
  LET ms == finditer(pat, s)
      is == {i \in 1..Len(ms) : Upper(Slice(s, ms[i].gs, ms[i].ge)) = sym}
  IN  IF is = {} THEN NoMatch ELSE ms[CHOOSE i \in is : \A j \in is : i <= j]

\* the pass that first inserts sym (1 dollar, 2 action-before, 3
\* ticker-before-action) and the match it inserts it from
Origin(s, sym) ==
  LET d == FirstMatchFor(dollar_pattern, s, sym)
      a == FirstMatchFor(action_before_pattern, s, sym)
      k == FirstMatchFor(ticker_before_action_pattern, s, sym)
  IN  IF d # NoMatch THEN [pass |-> 1, m |-> d]
      ELSE IF a # NoMatch THEN [pass |-> 2, m |-> a]
      ELSE [pass |-> 3, m |-> k]

\* C15: the result lists the symbols first inserted by the dollar pass in
\* the order of their first dollar match, then those of the action-before
\* pass in match order, then those of the ticker-before-action pass; every
\* HIGH Mention precedes every MEDIUM Mention.
ResultInInsertionOrder ==
  \A t \in Callers :
    (Returned(t) /\ ~text[t].none) =>
      \A i, j \in 1..Len(result[t]) :
        i < j =>
          LET a == Origin(text[t].s, result[t][i].ticker)
              b == Origin(text[t].s, result[t][j].ticker)
          IN  /\ a.m # NoMatch /\ b.m # NoMatch
              /\ \/ a.pass < b.pass
                 \/ a.pass = b.pass /\ a.m.start < b.m.start
              /\ ~(result[t][i].confidence = "MEDIUM"
                     /\ result[t][j].confidence = "HIGH")

\* a returned call whose result is a HIGH Mention followed by a MEDIUM one
\* although the action-before match lies before the dollar match in the text
ResultInInsertionOrderWitness ==
  /\ Returned(1) /\ ~text[1].none
  /\ Len(result[1]) >= 2
  /\ result[1][1].confidence = "HIGH"
  /\ result[1][2].confidence = "MEDIUM"
  /\ Origin(text[1].s, result[1][2].ticker).pass = 2
  /\ Origin(text[1].s, result[1][2].ticker).m.start
       < Origin(text[1].s, result[1][1].ticker).m.start

\* C16: the Mention of a symbol carries the matched text of its first dollar
\* match if it has one, else of its first action-before match, else of its
\* first ticker-before-action match, and is HIGH exactly in the first case;
\* an entry once written keeps its confidence and context until the call
\* ends.
FirstWriterWins ==
  /\ [](\A t \in Callers :
          (Returned(t) /\ ~text[t].none) =>
            \A i \in 1..Len(result[t]) :
              LET o == Origin(text[t].s, result[t][i].ticker)
              IN  /\ o.m # NoMatch
                  /\ result[t][i].context = Slice(text[t].s, o.m.start, o.m.end)
                  /\ result[t][i].confidence = "HIGH" <=> o.pass = 1)
  /\ [][\A t \in Callers :
          (pc[t] \in {"dollar", "action", "tba"}) =>
            /\ Len(mentions'[t]) >= Len(mentions[t])
            /\ \A i \in 1..Len(mentions[t]) : mentions'[t][i] = mentions[t][i]]_vars

\* a returned call for a symbol with two dollar matches of different text
\* and an action-context match
FirstWriterWinsWitness ==
  /\ Returned(1) /\ ~text[1].none
  /\ \E i \in 1..Len(result[1]) :
       LET sym == result[1][i].ticker
           ds == MatchesOf(1, dollar_pattern)
       IN  /\ \E a, b \in 1..Len(ds) :
                /\ a < b
                /\ GroupUpper(text[1].s, ds[a]) = sym
                /\ GroupUpper(text[1].s, ds[b]) = sym
                /\ Slice(text[1].s, ds[a].start, ds[a].end)
                     # Slice(text[1].s, ds[b].start, ds[b].end)
           /\ \/ sym \in Candidates(1, action_before_pattern)
              \/ sym \in Candidates(1, ticker_before_action_pattern)

\* the number of whitespace-separated tokens of s
TokenCount(s) ==
  Cardinality({i \in 1..Len(s) :
                 ~IsSpace(s[i]) /\ (i = 1 \/ IsSpace(s[i - 1]))})

\* C17: in every match of the action-before rule at most 3 word tokens lie
\* between the action word that starts the match and the captured token;
\* a universe symbol that follows "bought" after 4 or more words that are
\* no action words, in a text no other rule matches, has no Mention.
GapAtMostThree ==
  \A t \in Callers :
    (Returned(t) /\ ~text[t].none) =>
      /\ \A i \in 1..Len(MatchesOf(t, action_before_pattern)) :
           LET m == MatchesOf(t, action_before_pattern)[i]
           IN  TokenCount(Slice(text[t].s, m.start, m.gs)) - 1 <= 3
      /\ \A sym \in engine.valid_tickers :
           \A fs \in UNION {[1..k -> Fillers] : k \in 4..MaxFillers} :
             (TickerShaped(sym) /\ text[t].s = GapText(fs, sym)) =>
               \A i \in 1..Len(result[t]) : result[t][i].ticker # sym

\* a returned call for "bought", four fillers and a universe symbol, with
\* a match of the action-before rule in the text and an empty result
GapAtMostThreeWitness ==
  /\ Returned(1) /\ ~text[1].none
  /\ \E sym \in engine.valid_tickers, fs \in [1..4 -> Fillers] :
       /\ TickerShaped(sym)
       /\ text[1].s = GapText(fs, sym)
       /\ MatchesOf(1, action_before_pattern) # <<>>
  /\ result[1] = <<>>

\* C18: every HIGH Mention stems from a "$" followed by a run of word
\* characters that is 2 to 5 letters and spells the symbol; "$" followed
\* by a universe symbol and a digit, an underscore or letters up to a run of
\* 6, or by a single letter, gives no HIGH Mention.
DollarWordBounded ==
  \A t \in Callers :
    (Returned(t) /\ ~text[t].none) =>
      /\ \A i \in 1..Len(result[t]) :
           result[t][i].confidence = "HIGH" =>
             \E p \in 1..Len(text[t].s) :
               LET n == WordRun(text[t].s, p + 1)
               IN  /\ text[t].s[p] = "$"
                   /\ n \in 2..5
                   /\ \A k \in 1..n : IsLetter(text[t].s[p + k])
                   /\ Upper(Slice(text[t].s, p + 1, p + 1 + n)) = result[t][i].ticker
      /\ text[t] \in UnboundedTexts(engine.valid_tickers) =>
           \A i \in 1..Len(result[t]) : result[t][i].confidence # "HIGH"

\* a returned call for "$" and a universe symbol padded to six letters,
\* with an empty result
DollarWordBoundedWitness ==
  /\ Returned(1) /\ ~text[1].none
  /\ \E sym \in engine.valid_tickers :
       TickerShaped(sym) /\ text[1].s = DollarText(Padded(sym))
  /\ result[1] = <<>>

\* the lines of a file: the pieces between newlines, the last one only if
\* it is not empty
FileLines(b) ==
  LET ps == split(b)
  IN  IF ps[Len(ps)] = <<>> THEN SubSeq(ps, 1, Len(ps) - 1) ELSE ps

\* a line is blank if only whitespace, well-formed if what is left of it
\* without the whitespace around it parses
Blank(line) == bytes_strip(line) = <<>>

WellFormed(line) == loads(bytes_strip(line)).ok

\* the parsed objects of the well-formed non-blank lines, in order
RECURSIVE ParsedLines(_)
ParsedLines(lines) ==
  IF lines = <<>> THEN <<>>
  ELSE (IF ~Blank(Head(lines)) /\ WellFormed(Head(lines))
        THEN <<loads(bytes_strip(Head(lines))).value>>
        ELSE <<>>) \o ParsedLines(Tail(lines))

\* C19: a stream of a .jsonl/.json, .gz or .zst file that has ended has
\* yielded exactly the parsed objects of the well-formed non-blank lines of
\* the file, in file order; malformed lines are skipped and an empty file
\* yields nothing.
StreamYieldsWellFormedLines ==
  (exhausted /\ stream \in {"jsonl", "gz", "zst"}) =>
    yielded = ParsedLines(FileLines(f))

\* _stream_jsonl run over the whole of b from offset o
RECURSIVE jsonl_records(_, _)
jsonl_records(b, o) ==
  IF o < Len(b)
  THEN line_records(SubSeq(b, o + 1, LineEnd(b, o)))
         \o jsonl_records(b, LineEnd(b, o))
  ELSE <<>>

\* C20: however the reader splits the content into chunks, _stream_zst has
\* yielded at its end the records that the content split on newlines as a
\* whole gives, as _stream_jsonl yields them.
ZstYieldsWholeSplit ==
  (exhausted /\ stream = "zst") => yielded = jsonl_records(f, 0)

\* _stream_zst with the whole content as its single chunk
zst_single_chunk(b) ==
  LET lines == split(b)
  IN  lines_records(SubSeq(lines, 1, Len(lines) - 1))
        \o remaining_records(lines[Len(lines)])

\* every chunking of a content yields what the single chunk yields, and
\* while the stream runs the records of the complete lines read so far
ZstChunkIndependent ==
  stream = "zst" =>
    /\ exhausted => yielded = zst_single_chunk(f)
    /\ ~exhausted =>
         LET lines == split(SubSeq(f, 1, offset))
         IN  /\ yielded = lines_records(SubSeq(lines, 1, Len(lines) - 1))
             /\ buffer = lines[Len(lines)]

\* the line streams meet the statement of C19 on every file
LineStreamsYieldWellFormedLines ==
  (exhausted /\ stream \in {"jsonl", "gz"}) =>
    yielded = ParsedLines(FileLines(f))

\* upper-case, purely alphabetic, of length at least 2
TickerFormat(s) ==
  Len(s) >= 2 /\ \A i \in 1..Len(s) : IsUpper(s[i])

\* s equals, ignoring case, an entry of the common-word list
IsCommonWord(s) == \E w \in common_words : Upper(w) = Upper(s)

SpecialTickers == ({<<"S","P","Y">>} \cup popular_etfs) \cup popular_stocks

\* C21: filter_tickers returns only upper-case alphabetic symbols of length
\* at least 2, none of which equals, ignoring case, a common word; the
\* result of add_special_tickers on it keeps the format and holds SPY, the
\* ETFs and the popular stocks.
FilterThenSpecial ==
  /\ phase = "filtered" =>
       \A s \in filtered : TickerFormat(s) /\ ~IsCommonWord(s)
  /\ phase = "done" =>
       /\ \A s \in final : TickerFormat(s)
       /\ SpecialTickers \subseteq final

\* what the code does keep: the format, the exclusion of the common words
\* the list holds in upper case, and the special tickers
FilterThenSpecialAsListed ==
  /\ phase \in {"filtering", "filtered"} =>
       \A s \in filtered : TickerFormat(s) /\ s \notin common_words
  /\ phase = "filtered" =>
       filtered = {Upper(s) : s \in {r \in all_tickers :
                     Len(r) >= 2 /\ isalpha(r) /\ Upper(r) \notin common_words}}
  /\ phase = "done" =>
       /\ \A s \in final : TickerFormat(s)
       /\ SpecialTickers \subseteq final
       /\ \A s \in final : IsCommonWord(s) => Upper(s) \notin common_words

====
